---- MODULE Spec2Model ----
(***************************************************************************)
(* Model of src/printer-python.js: the Python node printer of prettier.    *)
(*                                                                         *)
(* genericPrint maps an AST node (and its parent) to a document, and       *)
(* printArguments pairs the parameters of a function with their defaults   *)
(* by sorting both lists on col_offset.                                    *)
(*                                                                         *)
(* JavaScript values are records tagged by `kind`: null/undefined, a       *)
(* string, or an AST node (an object with an ast_type).  Documents are     *)
(* records tagged by `type`, as the doc builders make them; a thrown       *)
(* Error is the document-position value Throw(..), which every caller      *)
(* hands on unchanged because the file holds no try/catch.                 *)
(***************************************************************************)
EXTENDS Integers, Sequences, FiniteSets, TLC

VARIABLES
  node,            \* the value genericPrint is called on (path.getValue())
  input,           \* the same value as it was before printing started
  kwOwner,         \* source truth: kwOwner[j] = index of the keyword-only
                   \* parameter that default j was written for
  pc,              \* position in genericPrint / printArguments
  argsKey,         \* printArguments' argsKey
  defaultsKey,     \* printArguments' defaultsKey
  merge,           \* printArguments' merge
  i,               \* printArguments' loop index
  currentArgument, \* printArguments' cursor into n[argsKey]
  currentDefault,  \* printArguments' cursor into n[defaultsKey]
  parts,           \* printArguments' parts
  argumentsParts,  \* `parts` of genericPrint's case "arguments"
  reads,           \* every (key, index) the loop has handed to path.call
  result           \* what genericPrint returned (or threw); NULL before that

vars == <<node, input, kwOwner, pc, argsKey, defaultsKey, merge, i,
          currentArgument, currentDefault, parts, argumentsParts, reads,
          result>>

-----------------------------------------------------------------------------
(* Bounds of the model.                                                    *)

MaxNodes == 3      \* parameters + defaults of one arguments node
MaxCol == 2        \* column offsets are 0..MaxCol
MaxElts == 2       \* elements of a sequence field of an expression

-----------------------------------------------------------------------------
(* JavaScript values.                                                      *)

NULL == [kind |-> "null"]
JsString(s) == [kind |-> "string", s |-> s]

IsNull(v) == v.kind = "null"
IsString(v) == v.kind = "string"

\* arr[idx] for a 0-based idx: undefined (NULL) outside the array
At(arr, idx) == IF idx >= 0 /\ idx < Len(arr) THEN arr[idx + 1] ELSE NULL

-----------------------------------------------------------------------------
(* The doc builders (./doc-builders) and a thrown Error.                   *)

Text(s) == [type |-> "text", s |-> s]
concat(ps) == [type |-> "concat", parts |-> ps]
line == [type |-> "line", mode |-> "line"]
softline == [type |-> "line", mode |-> "soft"]
hardline == concat(<<[type |-> "line", mode |-> "hard"], [type |-> "break-parent"]>>)
group(contents) == [type |-> "group", contents |-> contents]
indent(contents) == [type |-> "indent", contents |-> contents]

RECURSIVE Interleave(_, _)
Interleave(sep, arr) ==
  IF Len(arr) <= 1 THEN arr
  ELSE Interleave(sep, SubSeq(arr, 1, Len(arr) - 1)) \o <<sep, arr[Len(arr)]>>

join(sep, arr) == concat(Interleave(sep, arr))

Throw(t) == [type |-> "throw", ast_type |-> t]
IsThrow(d) == d.type = "throw"

\* The first exception raised while the documents of ds were being made, in
\* evaluation order; when there is none, the value d built from them.
Guard(ds, d) ==
  IF \E k \in 1..Len(ds) : IsThrow(ds[k])
    THEN ds[CHOOSE k \in 1..Len(ds) :
              IsThrow(ds[k]) /\ \A j \in 1..(k - 1) : ~IsThrow(ds[j])]
    ELSE d

\* The text of a document laid out flat (no group breaks).
RECURSIVE Flat(_)
RECURSIVE FlatSeq(_)
FlatSeq(ds) == IF ds = <<>> THEN "" ELSE Flat(Head(ds)) \o FlatSeq(Tail(ds))

Flat(d) ==
  CASE d.type = "text" -> d.s
    [] d.type = "concat" -> FlatSeq(d.parts)
    [] d.type = "line" ->
         (CASE d.mode = "soft" -> "" [] d.mode = "line" -> " " [] OTHER -> "\n")
    [] d.type \in {"group", "indent"} -> Flat(d.contents)
    [] OTHER -> ""

-----------------------------------------------------------------------------
(* printArguments (lines 13-51).                                           *)

\* Array.prototype.sort with (a, b) => a.col_offset - b.col_offset: a stable
\* sort on col_offset (the arrays here are far below the length at which an
\* engine's sort stops being stable).
InsertByCol(sorted, x) ==
  LET k == Cardinality({j \in 1..Len(sorted) : sorted[j].col_offset <= x.col_offset})
  IN  SubSeq(sorted, 1, k) \o <<x>> \o SubSeq(sorted, k + 1, Len(sorted))

RECURSIVE SortByCol(_)
SortByCol(arr) ==
  IF arr = <<>> THEN <<>>
  ELSE InsertByCol(SortByCol(SubSeq(arr, 1, Len(arr) - 1)), arr[Len(arr)])

\* The bug of sorting n[argsKey] itself, the defaults pushed onto it.
mergeAndSortInPlace(n, aKey, dKey) ==
  [merge |-> SortByCol(n[aKey] \o n[dKey]),
   n |-> [n EXCEPT ![aKey] = SortByCol(n[aKey] \o n[dKey])]]

\* const merge = [...n[argsKey], ...n[defaultsKey]].sort(..): the spread makes
\* a new array and sort() sorts that array in place, so n is left as it was.
\* `merge` is the sorted array, `n` the node after the statement.
mergeAndSort(n, aKey, dKey) ==
  [merge |-> SortByCol(n[aKey] \o n[dKey]), n |-> n]

NoThrow == [type |-> "none"]

RECURSIVE genericPrint(_, _)

\* The locals of printArguments before the loop (lines 28-31).
LoopInit ==
  [i |-> 0, currentArgument |-> 0, currentDefault |-> 0, parts |-> <<>>,
   reads |-> <<>>, thrown |-> NoThrow]

\* One iteration of the for loop (lines 33-48), the i++ included.
LoopStep(n, aKey, dKey, mrg, st) ==
  LET next == At(mrg, st.i + 1)
      arg == genericPrint(At(n[aKey], st.currentArgument), n)
      hasDefault == ~IsNull(next) /\ next.ast_type # "arg"
      readsDefault == hasDefault /\ ~IsThrow(arg)
      part == IF readsDefault
                THEN <<arg, Text("="),
                       genericPrint(At(n[dKey], st.currentDefault), n)>>
                ELSE <<arg>>
      thrown == Guard(part, NoThrow)
  IN  [i |-> st.i + 1 + (IF hasDefault THEN 1 ELSE 0),
       currentArgument |-> st.currentArgument + 1,
       currentDefault |-> st.currentDefault + (IF hasDefault THEN 1 ELSE 0),
       parts |-> IF IsThrow(thrown) THEN st.parts
                 ELSE Append(st.parts, concat(part)),
       reads |-> st.reads
                 \o <<[key |-> aKey, index |-> st.currentArgument]>>
                 \o (IF readsDefault
                       THEN <<[key |-> dKey, index |-> st.currentDefault]>>
                       ELSE <<>>),
       thrown |-> thrown]

RECURSIVE RunLoop(_, _, _, _, _)
RunLoop(n, aKey, dKey, mrg, st) ==
  IF st.i < Len(mrg) /\ ~IsThrow(st.thrown)
    THEN RunLoop(n, aKey, dKey, mrg, LoopStep(n, aKey, dKey, mrg, st))
    ELSE st

\* The whole call: .parts is the returned array, .thrown the exception that
\* ended it (NoThrow when it returned), .reads the path.call cursors.
printArguments(n, aKey, dKey) ==
  RunLoop(n, aKey, dKey, mergeAndSort(n, aKey, dKey).merge, LoopInit)

-----------------------------------------------------------------------------
(* genericPrint, case "arguments" (lines 88-113), statement by statement.  *)

\* lines 93-95
pushVararg(n, ps) ==
  IF ~IsNull(n.vararg)
    THEN Append(ps, concat(<<Text("*"), genericPrint(n.vararg, n)>>))
    ELSE ps

\* line 99: the test that guards the keyword-only block
hasKwonly(n) == Len(n.kwonlyargs) > 0

\* line 100
pushStar(ps) == Append(ps, Text("*"))

\* lines 108-110
pushKwarg(n, ps) ==
  IF ~IsNull(n.kwarg)
    THEN Append(ps, concat(<<Text("**"), genericPrint(n.kwarg, n)>>))
    ELSE ps

\* line 112
joinParts(ps) == join(concat(<<Text(", "), softline>>), ps)

\* The exception, if any, raised while the documents of ps were being made:
\* a Throw inside a pushed concat([.., print(..)]) is that exception.
Unwrap(d) == IF d.type = "concat" THEN Guard(d.parts, d) ELSE d
partsThrow(ps) == Guard([k \in 1..Len(ps) |-> Unwrap(ps[k])], NoThrow)
withThrow(ps) == [parts |-> ps, thrown |-> partsThrow(ps)]

\* The statements of the case in turn, each on the parts made so far (r.parts)
\* unless an exception (r.thrown) has already ended the case.
varargStage(n, r) ==
  IF IsThrow(r.thrown) THEN r ELSE withThrow(pushVararg(n, r.parts))

appendCall(ps, call) == [parts |-> ps \o call.parts, thrown |-> call.thrown]

kwonlyStage(n, r) ==
  IF IsThrow(r.thrown) \/ ~hasKwonly(n) THEN r
  ELSE appendCall(pushStar(r.parts),
                  printArguments(n, "kwonlyargs", "kw_defaults"))

kwargStage(n, r) ==
  IF IsThrow(r.thrown) THEN r ELSE withThrow(pushKwarg(n, r.parts))

argumentsResult(r) ==
  IF IsThrow(r.thrown) THEN r.thrown ELSE joinParts(r.parts)

caseArguments(n) ==
  argumentsResult(
    kwargStage(n,
      kwonlyStage(n,
        varargStage(n, printArguments(n, "args", "defaults")))))

-----------------------------------------------------------------------------
(* genericPrint (lines 53-320).                                            *)

\* The ast_types the switch has a case for (lines 63-314).
OperatorSymbol ==
  [Add |-> "+", Sub |-> "-", Mult |-> "*", MatMult |-> "@", Div |-> "/",
   FloorDiv |-> "//", Mod |-> "%", Pow |-> "**", LShift |-> "<<",
   RShift |-> ">>", BitAnd |-> "&", BitXor |-> "^", BitOr |-> "|",
   Lt |-> "<", LtE |-> "<=", Gt |-> ">", GtE |-> ">=", Eq |-> "==",
   NotEq |-> "!="]

KnownTypes ==
  {"Module", "FunctionDef", "arguments", "arg", "Expr", "Call", "Str", "Num",
   "float", "int", "Name", "NameConstant", "For", "Tuple", "List", "Assign",
   "AugAssign", "Dict", "ClassDef", "Attribute", "Compare"}
  \cup DOMAIN OperatorSymbol

\* The values a case hands to print (path.call / path.map), in the order the
\* case evaluates them.  Case "arguments" makes its calls in printArguments.
printedFields(n) ==
  CASE n.ast_type = "Module" -> n.body
    [] n.ast_type = "FunctionDef" -> <<n.name, n.args>> \o n.body
    [] n.ast_type = "Expr" -> <<n.value>>
    [] n.ast_type = "Call" -> n.args
    [] n.ast_type = "Num" -> <<n.n>>
    [] n.ast_type = "For" ->
         <<n.target, n.iter>> \o n.body
         \o (IF Len(n.orelse) > 0 THEN n.orelse ELSE <<>>)
    [] n.ast_type \in {"Tuple", "List"} -> n.elts
    [] n.ast_type = "Assign" -> n.targets \o <<n.value>>
    [] n.ast_type = "AugAssign" -> <<n.target, n.op, n.value>>
    [] n.ast_type = "Dict" -> n.keys \o n.values
    [] n.ast_type = "ClassDef" ->
         (IF Len(n.bases) > 0 THEN n.bases ELSE <<>>) \o n.body
    [] n.ast_type = "Attribute" -> <<n.value>>
    [] n.ast_type = "Compare" -> n.ops \o n.comparators \o <<n.left>>
    [] OTHER -> <<>>

\* The bug of testing for a List parent only.
needsParensListOnly(parent) == parent.ast_type = "List"

\* lines 168-169: needsParens of case "Tuple"
needsParens(parent) == parent.ast_type \in {"List", "Tuple"}

\* The bug of leaving out the space after "=".
augAssignDocNoSpace(target, op, value) ==
  concat(<<target, Text(" "), op, Text("="), value>>)

\* lines 193-199: the document of case "AugAssign"
augAssignDoc(target, op, value) ==
  concat(<<target, Text(" "), op, Text("= "), value>>)

\* The bug of pairing every key with the first value.
dictPairsFirstValue(keys, values) ==
  [k \in 1..Len(keys) |->
     concat(<<softline, keys[k], Text(": "), values[1]>>)]

\* line 206: pairs of case "Dict"
dictPairs(keys, values) ==
  [k \in 1..Len(keys) |->
     concat(<<softline, keys[k], Text(": "), values[k]>>)]

\* The bug of pairing every operator with the first comparator.
comparePairsFirst(ops, comparators) ==
  [k \in 1..Len(ops) |->
     concat(<<Text(" "), ops[k], Text(" "), comparators[1]>>)]

\* line 287: pairs of case "Compare"
comparePairs(ops, comparators) ==
  [k \in 1..Len(ops) |->
     concat(<<Text(" "), ops[k], Text(" "), comparators[k]>>)]

\* The bug of printing nothing for a node the switch has no case for.
defaultCaseSilent(n) == Text("")

\* lines 316-318: the default case of the switch
defaultCase(n) == Throw(n.ast_type)

\* `${v}` for a number
NumberToString(v) == ToString(v)

\* The document a case returns, ds being the printed values of
\* printedFields(n) in the same order.
caseDoc(n, parent, ds) ==
  LET from(k) == SubSeq(ds, k, Len(ds))
      upto(k) == SubSeq(ds, 1, k)
      between(a, b) == SubSeq(ds, a, b)
  IN
  CASE n.ast_type = "Module" ->
         concat(<<join(concat(<<hardline, hardline>>), ds), hardline>>)
    [] n.ast_type = "FunctionDef" ->
         concat(<<Text("def "), ds[1],
                  group(concat(<<Text("("),
                                 indent(concat(<<softline, ds[2]>>)),
                                 softline, Text(")")>>)),
                  Text(":"),
                  indent(concat(<<line, concat(from(3))>>))>>)
    [] n.ast_type = "arg" -> Text(n.arg)
    [] n.ast_type = "Expr" -> ds[1]
    [] n.ast_type = "Call" ->
         concat(<<Text(n.func.id), Text("("), join(Text(", "), ds), Text(")")>>)
    [] n.ast_type = "Str" -> Text("\"" \o n.s \o "\"")
    [] n.ast_type = "Num" -> ds[1]
    [] n.ast_type \in {"float", "int"} -> Text(NumberToString(n.n))
    [] n.ast_type = "Name" -> Text(n.id)
    [] n.ast_type = "NameConstant" -> Text(n.value)
    [] n.ast_type = "For" ->
         LET nb == Len(n.body)
             head == <<Text("for "), ds[1], Text(" in "), ds[2], Text(":"),
                       indent(concat(<<line, concat(between(3, 2 + nb))>>))>>
         IN  concat(IF Len(n.orelse) > 0
                      THEN head \o <<line, Text("else:"),
                                      indent(concat(<<line, concat(from(3 + nb))>>))>>
                      ELSE head)
    [] n.ast_type = "Tuple" ->
         LET elts == join(Text(", "), ds)
         IN  IF needsParens(parent)
               THEN concat(<<Text("("), elts, Text(")")>>)
               ELSE elts
    [] n.ast_type = "List" ->
         concat(<<Text("["), join(Text(", "), ds), Text("]")>>)
    [] n.ast_type = "Assign" ->
         concat(<<join(Text(", "), upto(Len(n.targets))), Text(" = "),
                  ds[Len(ds)]>>)
    [] n.ast_type = "AugAssign" ->
         augAssignDoc(ds[1], ds[2], ds[3])
    [] n.ast_type = "Dict" ->
         LET keys == upto(Len(n.keys))
             values == from(Len(n.keys) + 1)
             pairs == dictPairs(keys, values)
         IN  concat(<<Text("{"), indent(join(Text(","), pairs)), softline,
                      Text("}")>>)
    [] n.ast_type = "ClassDef" ->
         LET nb == IF Len(n.bases) > 0 THEN Len(n.bases) ELSE 0
             bases == IF Len(n.bases) > 0
                        THEN <<Text("("), join(Text(","), upto(nb)), Text(")")>>
                        ELSE <<>>
         IN  concat(<<Text("class "), Text(n.name), concat(bases), Text(":"),
                      indent(concat(<<line, concat(from(nb + 1))>>))>>)
    [] n.ast_type = "Attribute" ->
         concat(<<ds[1], Text("."), Text(n.attr)>>)
    [] n.ast_type \in DOMAIN OperatorSymbol -> Text(OperatorSymbol[n.ast_type])
    [] n.ast_type = "Compare" ->
         LET ops == upto(Len(n.ops))
             comparators == between(Len(n.ops) + 1, Len(ds) - 1)
             pairs == comparePairs(ops, comparators)
         IN  concat(<<ds[Len(ds)]>> \o pairs)

genericPrint(n, parent) ==
  IF IsNull(n) THEN Text("")
  ELSE IF IsString(n) THEN Text(n.s)
  ELSE IF n.ast_type \notin KnownTypes THEN defaultCase(n)
  ELSE IF n.ast_type = "arguments" THEN caseArguments(n)
  ELSE LET fs == printedFields(n)
           ds == [k \in 1..Len(fs) |-> genericPrint(fs[k], n)]
       IN  Guard(ds, caseDoc(n, parent, ds))


-----------------------------------------------------------------------------
(* The AST values printing starts from.                                    *)

Arg(name, col) ==
  [kind |-> "node", ast_type |-> "arg", arg |-> name, col_offset |-> col]
IntNode(v) == [kind |-> "node", ast_type |-> "int", n |-> v]
Num(v, col) ==
  [kind |-> "node", ast_type |-> "Num", n |-> IntNode(v), col_offset |-> col]
\* a node of a kind the switch has no case for (1 + 2 is a BinOp)
BinOp(col) == [kind |-> "node", ast_type |-> "BinOp", col_offset |-> col]

DefaultTypes == {"Num", "BinOp"}
Default(t, v, col) == IF t = "Num" THEN Num(v, col) ELSE BinOp(col)

RECURSIVE SortedSeq(_)
SortedSeq(S) ==
  IF S = {} THEN <<>>
  ELSE LET m == CHOOSE x \in S : \A y \in S : x <= y
       IN  <<m>> \o SortedSeq(S \ {m})

\* An arguments node with N positional parameters, the last K of them with a
\* default, M keyword-only parameters, those of D with a default, at the
\* column offsets col and with defaults of the types ty.
ArgumentsNode(N, K, M, D, col, ty, vararg, kwarg) ==
  LET own == SortedSeq(D)
      J == Len(own)
  IN  [kind |-> "node", ast_type |-> "arguments",
       args |-> [p \in 1..N |-> Arg("a" \o ToString(p), col[p])],
       defaults |-> [j \in 1..K |-> Default(ty[j], j, col[N + j])],
       vararg |-> vararg,
       kwonlyargs |-> [p \in 1..M |-> Arg("k" \o ToString(p), col[N + K + p])],
       kw_defaults |-> [j \in 1..J |->
                          Default(ty[K + j], 10 + own[j], col[N + K + M + j])],
       kwarg |-> kwarg]

Shapes ==
  {sh \in [N : 0..MaxNodes, K : 0..MaxNodes, M : 0..MaxNodes,
           D : SUBSET (1..MaxNodes)] :
     /\ sh.K <= sh.N
     /\ sh.D \subseteq 1..sh.M
     /\ sh.N + sh.K + sh.M + Cardinality(sh.D) <= MaxNodes}

Optional(v) == {NULL, v}

-----------------------------------------------------------------------------
(* Printing an arguments node, statement by statement.                     *)

Init ==
  \E sh \in Shapes :
    LET J == Cardinality(sh.D)
    IN  \E col \in [1..(sh.N + sh.K + sh.M + J) -> 0..MaxCol],
           ty \in [1..(sh.K + J) -> DefaultTypes],
           vararg \in Optional(Arg("args", 0)),
           kwarg \in Optional(Arg("kwargs", 0)) :
          /\ node = ArgumentsNode(sh.N, sh.K, sh.M, sh.D, col, ty, vararg, kwarg)
          /\ kwOwner = SortedSeq(sh.D)
  /\ input = node
  /\ pc = "arguments"
  /\ argsKey = ""
  /\ defaultsKey = ""
  /\ merge = <<>>
  /\ i = 0
  /\ currentArgument = 0
  /\ currentDefault = 0
  /\ parts = <<>>
  /\ argumentsParts = <<>>
  /\ reads = <<>>
  /\ result = NULL

\* printArguments is entered: lines 14-31
Enter(aKey, dKey) ==
  LET ms == mergeAndSort(node, aKey, dKey)
  IN  /\ argsKey' = aKey
      /\ defaultsKey' = dKey
      /\ merge' = ms.merge
      /\ node' = ms.n
      /\ i' = LoopInit.i
      /\ currentArgument' = LoopInit.currentArgument
      /\ currentDefault' = LoopInit.currentDefault
      /\ parts' = LoopInit.parts
      /\ reads' = LoopInit.reads
      /\ pc' = "loop"

\* line 89: the call for the positional parameters
CallPositional ==
  /\ pc = "arguments"
  /\ Enter("args", "defaults")
  /\ UNCHANGED <<input, kwOwner, argumentsParts, result>>

LoopState ==
  [i |-> i, currentArgument |-> currentArgument,
   currentDefault |-> currentDefault, parts |-> parts, reads |-> reads,
   thrown |-> NoThrow]

\* lines 33-48: one iteration, which ends the whole print when a print throws
Iterate ==
  /\ pc = "loop"
  /\ i < Len(merge)
  /\ LET st == LoopStep(node, argsKey, defaultsKey, merge, LoopState)
     IN  /\ i' = st.i
         /\ currentArgument' = st.currentArgument
         /\ currentDefault' = st.currentDefault
         /\ parts' = st.parts
         /\ reads' = st.reads
         /\ IF IsThrow(st.thrown)
              THEN pc' = "thrown" /\ result' = st.thrown
              ELSE pc' = "loop" /\ result' = result
  /\ UNCHANGED <<node, input, kwOwner, argsKey, defaultsKey, merge,
                 argumentsParts>>

\* line 50, and the caller's use of the returned array (lines 89, 101-103)
Return ==
  /\ pc = "loop"
  /\ i >= Len(merge)
  /\ IF argsKey = "args"
       THEN argumentsParts' = parts /\ pc' = "vararg"
       ELSE argumentsParts' = argumentsParts \o parts /\ pc' = "kwarg"
  /\ UNCHANGED <<node, input, kwOwner, argsKey, defaultsKey, merge, i,
                 currentArgument, currentDefault, parts, reads, result>>

\* lines 93-95
Vararg ==
  /\ pc = "vararg"
  /\ argumentsParts' = pushVararg(node, argumentsParts)
  /\ pc' = "kwonly"
  /\ UNCHANGED <<node, input, kwOwner, argsKey, defaultsKey, merge, i,
                 currentArgument, currentDefault, parts, reads, result>>

\* lines 99-102: the bare "*" and the call for the keyword-only parameters
CallKwonly ==
  /\ pc = "kwonly"
  /\ hasKwonly(node)
  /\ argumentsParts' = pushStar(argumentsParts)
  /\ Enter("kwonlyargs", "kw_defaults")
  /\ UNCHANGED <<input, kwOwner, result>>

\* line 99, the test failing
SkipKwonly ==
  /\ pc = "kwonly"
  /\ ~hasKwonly(node)
  /\ pc' = "kwarg"
  /\ UNCHANGED <<node, input, kwOwner, argsKey, defaultsKey, merge, i,
                 currentArgument, currentDefault, parts, argumentsParts,
                 reads, result>>

\* lines 108-110
Kwarg ==
  /\ pc = "kwarg"
  /\ argumentsParts' = pushKwarg(node, argumentsParts)
  /\ pc' = "join"
  /\ UNCHANGED <<node, input, kwOwner, argsKey, defaultsKey, merge, i,
                 currentArgument, currentDefault, parts, reads, result>>

\* line 112
Join ==
  /\ pc = "join"
  /\ result' = joinParts(argumentsParts)
  /\ pc' = "done"
  /\ UNCHANGED <<node, input, kwOwner, argsKey, defaultsKey, merge, i,
                 currentArgument, currentDefault, parts, argumentsParts,
                 reads>>

Next ==
  \/ CallPositional
  \/ Iterate
  \/ Return
  \/ Vararg
  \/ CallKwonly
  \/ SkipKwonly
  \/ Kwarg
  \/ Join

Spec == Init /\ [][Next]_vars


-----------------------------------------------------------------------------
(* Printing a module: genericPrint on the root, as one step.               *)

Name(id) == [kind |-> "node", ast_type |-> "Name", id |-> id]
Str(t) == [kind |-> "node", ast_type |-> "Str", s |-> t]
NameConstant(v) == [kind |-> "node", ast_type |-> "NameConstant", value |-> v]
Op(t) == [kind |-> "node", ast_type |-> t]
Tuple(elts) == [kind |-> "node", ast_type |-> "Tuple", elts |-> elts]
List(elts) == [kind |-> "node", ast_type |-> "List", elts |-> elts]
Dict(keys, values) ==
  [kind |-> "node", ast_type |-> "Dict", keys |-> keys, values |-> values]
Compare(left, ops, comparators) ==
  [kind |-> "node", ast_type |-> "Compare", left |-> left, ops |-> ops,
   comparators |-> comparators]
Call(func, args) ==
  [kind |-> "node", ast_type |-> "Call", func |-> func, args |-> args]
Attribute(value, attr) ==
  [kind |-> "node", ast_type |-> "Attribute", value |-> value, attr |-> attr]
Expr(value) == [kind |-> "node", ast_type |-> "Expr", value |-> value]
Assign(targets, value) ==
  [kind |-> "node", ast_type |-> "Assign", targets |-> targets, value |-> value]
AugAssign(target, op, value) ==
  [kind |-> "node", ast_type |-> "AugAssign", target |-> target, op |-> op,
   value |-> value]
For(target, iter, body, orelse) ==
  [kind |-> "node", ast_type |-> "For", target |-> target, iter |-> iter,
   body |-> body, orelse |-> orelse]
ClassDef(name, bases, body) ==
  [kind |-> "node", ast_type |-> "ClassDef", name |-> name, bases |-> bases,
   body |-> body]
FunctionDef(name, args, body) ==
  [kind |-> "node", ast_type |-> "FunctionDef", name |-> JsString(name),
   args |-> args, body |-> body]
Module(body) == [kind |-> "node", ast_type |-> "Module", body |-> body]

SeqsUpTo(S, n) == UNION {[1..k -> S] : k \in 0..n}

Leaves == {Name("a"), Num(1, 0), Str("s"), NameConstant("None"), BinOp(0)}
CompareOps == {Op("Lt"), Op("LtE")}
AugOps == {Op("Add"), Op("Pow")}

\* expressions whose operands are leaves
Composites ==
  {Tuple(es) : es \in SeqsUpTo(Leaves, MaxElts)}
  \cup {List(es) : es \in SeqsUpTo(Leaves, MaxElts)}
  \cup {Call(Name("f"), es) : es \in SeqsUpTo(Leaves, MaxElts)}
  \cup {Dict([k \in DOMAIN vs |-> Name("k" \o ToString(k))], vs) :
          vs \in SeqsUpTo(Leaves, MaxElts)}
  \cup UNION {{Compare(Name("a"), ops, cs) : ops \in [1..m -> CompareOps],
                                             cs \in [1..m -> Leaves]} :
                m \in 1..MaxElts}
  \cup {Attribute(e, "x") : e \in Leaves}

\* one more level of nesting around an expression
Nest(e) ==
  {List(<<e>>), Tuple(<<e>>), Tuple(<<Name("a"), e>>), Call(Name("f"), <<e>>),
   Dict(<<Name("k1")>>, <<e>>), Compare(Name("a"), <<Op("Lt")>>, <<e>>)}

Exprs == Leaves \cup Composites \cup UNION {Nest(e) : e \in Composites}

Pass == Expr(Name("a"))

SmallArguments ==
  {ArgumentsNode(1, K, 0, {}, col, ty, NULL, NULL) :
     K \in 0..1, col \in [1..2 -> 0..1], ty \in [1..1 -> DefaultTypes]}

Statements ==
  {Expr(e) : e \in Exprs}
  \cup {Assign(<<Name("t")>>, e) : e \in Exprs}
  \cup {Assign(<<Name("t"), Name("u")>>, e) : e \in Leaves}
  \cup {AugAssign(Name("x"), op, e) : op \in AugOps, e \in Leaves \cup Composites}
  \cup {For(Name("x"), e, <<Pass>>, orelse) :
          e \in Leaves \cup Composites, orelse \in {<<>>, <<Pass>>}}
  \cup {ClassDef("C", bases, <<Expr(e)>>) :
          bases \in SeqsUpTo({Name("a")}, MaxElts), e \in Leaves}
  \cup {FunctionDef("f", a, <<Expr(e)>>) : a \in SmallArguments, e \in Leaves}

Roots ==
  {Module(<<>>)}
  \cup {Module(<<st>>) : st \in Statements}
  \cup {Module(<<Pass, Expr(e)>>) : e \in Leaves}

InitPrint ==
  /\ node \in Roots
  /\ input = node
  /\ kwOwner = <<>>
  /\ pc = "module"
  /\ argsKey = ""
  /\ defaultsKey = ""
  /\ merge = <<>>
  /\ i = 0
  /\ currentArgument = 0
  /\ currentDefault = 0
  /\ parts = <<>>
  /\ argumentsParts = <<>>
  /\ reads = <<>>
  /\ result = NULL

\* the driver's call of genericPrint on the root, which has no parent
PrintModule ==
  /\ pc = "module"
  /\ result' = genericPrint(node, NULL)
  /\ pc' = "done"
  /\ UNCHANGED <<node, input, kwOwner, argsKey, defaultsKey, merge, i,
                 currentArgument, currentDefault, parts, argumentsParts,
                 reads>>

NextPrint == PrintModule

SpecPrint == InitPrint /\ [][NextPrint]_vars


-----------------------------------------------------------------------------
(* What the properties below talk about.                                   *)

Range(f) == {f[k] : k \in DOMAIN f}

\* The values printArguments hands to print for the group (aKey, dKey).
callReads(n, aKey, dKey) ==
  LET rs == printArguments(n, aKey, dKey).reads
  IN  [k \in 1..Len(rs) |-> At(n[rs[k].key], rs[k].index)]

\* Every value genericPrint's case for n hands to print.
printedChildren(n) ==
  IF n.ast_type = "arguments"
    THEN callReads(n, "args", "defaults") \o <<n.vararg>>
         \o (IF hasKwonly(n) THEN callReads(n, "kwonlyargs", "kw_defaults")
             ELSE <<>>)
         \o <<n.kwarg>>
    ELSE printedFields(n)

\* Every node genericPrint is invoked on while v (under parent) is printed,
\* each with the parent it is printed under.
RECURSIVE Occurrences(_, _)
Occurrences(v, parent) ==
  IF IsNull(v) \/ IsString(v) THEN {}
  ELSE {[n |-> v, parent |-> parent]}
       \cup UNION {Occurrences(c, v) : c \in Range(printedChildren(v))}

Printed(occ) == genericPrint(occ.n, occ.parent)
PrintedSeq(vs, parent) == [k \in 1..Len(vs) |-> genericPrint(vs[k], parent)]
NoThrowIn(ds) == \A k \in 1..Len(ds) : ~IsThrow(ds[k])

\* The texts and line breaks of a document, left to right.
RECURSIVE Tokens(_)
RECURSIVE TokensSeq(_)
TokensSeq(ds) == IF ds = <<>> THEN <<>> ELSE Tokens(Head(ds)) \o TokensSeq(Tail(ds))

Tokens(d) ==
  CASE d.type = "concat" -> TokensSeq(d.parts)
    [] d.type \in {"group", "indent"} -> Tokens(d.contents)
    [] OTHER -> <<d>>

\* the texts ts with sep between them
RECURSIVE JoinText(_, _)
JoinText(sep, ts) ==
  IF ts = <<>> THEN ""
  ELSE IF Len(ts) = 1 THEN ts[1]
  ELSE ts[1] \o sep \o JoinText(sep, Tail(ts))

FlatAll(ds) == [k \in 1..Len(ds) |-> Flat(ds[k])]

HasEquals(d) == d.type = "concat" /\ \E k \in 1..Len(d.parts) : d.parts[k] = Text("=")

\* printArguments has just returned from the call for the group aKey
Returned(aKey) ==
  /\ argsKey = aKey
  /\ \/ aKey = "args" /\ pc = "vararg"
     \/ aKey = "kwonlyargs" /\ pc = "kwarg"

\* owner[j] = index of the parameter default j was written for
TrailingOwner(n) ==
  [j \in 1..Len(n.defaults) |-> Len(n.args) - Len(n.defaults) + j]

\* The fragments that pair every parameter with its own default.
OwnFragments(n, params, defs, owner) ==
  [p \in 1..Len(params) |->
     IF \E j \in 1..Len(owner) : owner[j] = p
       THEN concat(<<Text(params[p].arg), Text("="),
                     genericPrint(defs[CHOOSE j \in 1..Len(owner) : owner[j] = p], n)>>)
       ELSE concat(<<Text(params[p].arg)>>)]

\* The parameters and defaults of a group are at increasing columns in the
\* order they are written in (as on a single source line).
InSourceOrder(params, defs, owner) ==
  /\ \A p \in 1..(Len(params) - 1) : params[p].col_offset < params[p + 1].col_offset
  /\ \A j \in 1..Len(owner) :
       /\ params[owner[j]].col_offset < defs[j].col_offset
       /\ owner[j] < Len(params) =>
            defs[j].col_offset < params[owner[j] + 1].col_offset

-----------------------------------------------------------------------------
(* Properties of printArguments and of case "arguments" (Spec).            *)

\* C1: for N positional parameters of which the last K carry defaults,
\* printArguments(args, defaults) returns exactly N fragments in parameter
\* order, the last K being parameter "=" default and the first N-K the bare
\* parameter.
C1_TrailingDefaults ==
  Returned("args") =>
    LET N == Len(node.args)
        K == Len(node.defaults)
    IN  /\ Len(parts) = N
        /\ \A p \in 1..N : HasEquals(parts[p]) <=> p > N - K
        /\ parts = OwnFragments(node, node.args, node.defaults, TrailingOwner(node))

\* The same statement for a parameter list written at increasing columns.
C1_InSourceOrder ==
  InSourceOrder(node.args, node.defaults, TrailingOwner(node)) => C1_TrailingDefaults

\* C2: the parts of an arguments node are the positional fragments, then
\* "*"+vararg if there is a vararg or a bare "*" if there are keyword-only
\* parameters and no vararg, then the keyword-only fragments, then
\* "**"+kwarg; a bare "*" is there only with keyword-only parameters and no
\* vararg.
C2_FixedOrder ==
  pc = "done" =>
    LET star == IF ~IsNull(node.vararg)
                  THEN <<concat(<<Text("*"), Text(node.vararg.arg)>>)>>
                  ELSE IF hasKwonly(node) THEN <<Text("*")>> ELSE <<>>
        kw == IF hasKwonly(node)
                THEN printArguments(node, "kwonlyargs", "kw_defaults").parts
                ELSE <<>>
        kwarg == IF ~IsNull(node.kwarg)
                   THEN <<concat(<<Text("**"), Text(node.kwarg.arg)>>)>>
                   ELSE <<>>
    IN  /\ argumentsParts
             = printArguments(node, "args", "defaults").parts \o star \o kw \o kwarg
        /\ (\E k \in 1..Len(argumentsParts) : argumentsParts[k] = Text("*"))
             => hasKwonly(node) /\ IsNull(node.vararg)
        /\ result = joinParts(argumentsParts)

\* What the code emits instead: the bare "*" whenever there are keyword-only
\* parameters, after "*"+vararg when there is a vararg too.
C2_StarAfterVararg ==
  pc = "done" =>
    LET vararg == IF ~IsNull(node.vararg)
                    THEN <<concat(<<Text("*"), Text(node.vararg.arg)>>)>>
                    ELSE <<>>
        kw == IF hasKwonly(node)
                THEN <<Text("*")>>
                     \o printArguments(node, "kwonlyargs", "kw_defaults").parts
                ELSE <<>>
        kwarg == IF ~IsNull(node.kwarg)
                   THEN <<concat(<<Text("**"), Text(node.kwarg.arg)>>)>>
                   ELSE <<>>
    IN  argumentsParts
          = printArguments(node, "args", "defaults").parts \o vararg \o kw \o kwarg

\* C8: printing never mutates the AST: in every state of printing the
\* arguments node, the sort of printArguments included, the node (its args,
\* defaults, kwonlyargs and kw_defaults in their order) is as it was before.
C8_NodeUnchanged == node = input

\* a sort that had something to reorder has run, and printing has finished
C8_Witness ==
  /\ pc = "done"
  /\ merge # node.kwonlyargs \o node.kw_defaults
  /\ hasKwonly(node)

\* every default is right of its own parameter and left of the next one
AccurateOffsets(params, defs, owner) ==
  \A j \in 1..Len(owner) :
    /\ params[owner[j]].col_offset < defs[j].col_offset
    /\ owner[j] < Len(params) =>
         defs[j].col_offset < params[owner[j] + 1].col_offset

\* C9: when every default is at a column greater than its own parameter's and
\* smaller than the next parameter's, fragment p is parameter "=" its own
\* default if parameter p has one and the bare parameter otherwise, whichever
\* parameters have defaults.
C9_OwnDefault ==
  /\ (Returned("kwonlyargs")
        /\ AccurateOffsets(node.kwonlyargs, node.kw_defaults, kwOwner))
       => parts = OwnFragments(node, node.kwonlyargs, node.kw_defaults, kwOwner)
  /\ (Returned("args")
        /\ AccurateOffsets(node.args, node.defaults, TrailingOwner(node)))
       => parts = OwnFragments(node, node.args, node.defaults, TrailingOwner(node))

\* The same statement for a parameter list written at increasing columns.
C9_InSourceOrder ==
  /\ (Returned("kwonlyargs")
        /\ InSourceOrder(node.kwonlyargs, node.kw_defaults, kwOwner))
       => parts = OwnFragments(node, node.kwonlyargs, node.kw_defaults, kwOwner)
  /\ (Returned("args")
        /\ InSourceOrder(node.args, node.defaults, TrailingOwner(node)))
       => parts = OwnFragments(node, node.args, node.defaults, TrailingOwner(node))

\* C10: whatever the column offsets, every read of a parameter is at a cursor
\* below the number of parameters, every read of a default at a cursor below
\* the number of defaults, and the loop ends with one fragment per parameter.
C10_CursorsInRange ==
  /\ (pc = "loop" /\ i < Len(merge)) => currentArgument < Len(node[argsKey])
  /\ \A k \in 1..Len(reads) : reads[k].index < Len(node[reads[k].key])
  /\ (Returned("args") \/ Returned("kwonlyargs"))
       => Len(parts) = Len(node[argsKey])

\* The part of it that holds: a default is only ever read in range.
C10_DefaultReadsInRange ==
  \A k \in 1..Len(reads) :
    reads[k].key = defaultsKey => reads[k].index < Len(node[defaultsKey])


-----------------------------------------------------------------------------
(* Properties of genericPrint on a module (SpecPrint).                     *)

Unsupported(occ) == occ.n.ast_type \notin KnownTypes

\* C3: when genericPrint is invoked on a node whose ast_type has no case, the
\* print of the whole tree ends in that error and returns no document; and
\* a print in which no such node is reached returns a document.
C3_UnknownNodeRaises ==
  pc = "done" =>
    LET bad == {occ \in Occurrences(node, NULL) : Unsupported(occ)}
    IN  /\ bad # {} => \E occ \in bad : result = Throw(occ.n.ast_type)
        /\ bad = {} => ~IsThrow(result)

\* an unsupported node three levels below its statement has ended the print
C3_Witness ==
  /\ pc = "done"
  /\ node = Module(<<Expr(List(<<Tuple(<<Name("a"), BinOp(0)>>)>>))>>)
  /\ result = Throw("BinOp")

\* C4: a Tuple is printed as its elements joined by ", ", inside "(" and ")"
\* if and only if its immediate parent is a List or a Tuple.
C4_TupleParens ==
  pc = "done" =>
    \A occ \in Occurrences(node, NULL) :
      LET elts == PrintedSeq(occ.n.elts, occ.n)
          joined == JoinText(", ", FlatAll(elts))
      IN  (occ.n.ast_type = "Tuple" /\ NoThrowIn(elts)) =>
            /\ Flat(Printed(occ))
                 = IF occ.parent.ast_type \in {"List", "Tuple"}
                     THEN "(" \o joined \o ")"
                     ELSE joined
            /\ Tokens(Printed(occ))
                 = IF occ.parent.ast_type \in {"List", "Tuple"}
                     THEN <<Text("(")>> \o Tokens(join(Text(", "), elts))
                          \o <<Text(")")>>
                     ELSE Tokens(join(Text(", "), elts))

\* a tuple as an element of a tuple that is a statement's value: the inner one
\* is in parentheses, the outer one is not
C4_Witness ==
  /\ pc = "done"
  /\ node = Module(<<Expr(Tuple(<<Name("a"), Tuple(<<Name("a"), Num(1, 0)>>)>>))>>)
  /\ Flat(result) = "a, (a, 1)\n"

\* C5 as claimed: an augmented assignment is printed as target, " ", operator
\* symbol, "=", value, the value directly after the "=" (x +=1).
C5_ValueAfterEquals ==
  pc = "done" =>
    \A occ \in Occurrences(node, NULL) :
      LET ds == PrintedSeq(<<occ.n.target, occ.n.value>>, occ.n)
      IN  (occ.n.ast_type = "AugAssign" /\ NoThrowIn(ds)) =>
            Flat(Printed(occ))
              = Flat(ds[1]) \o " " \o OperatorSymbol[occ.n.op.ast_type] \o "="
                \o Flat(ds[2])

\* C5 as amended: an augmented assignment is printed as target, " ", operator
\* symbol, "= ", value: a space before the operator symbol, none between it
\* and "=", and one space between "=" and the value (x += 1).
C5_SpaceAfterEquals ==
  pc = "done" =>
    \A occ \in Occurrences(node, NULL) :
      LET ds == PrintedSeq(<<occ.n.target, occ.n.value>>, occ.n)
      IN  (occ.n.ast_type = "AugAssign" /\ NoThrowIn(ds)) =>
            /\ Flat(Printed(occ))
                 = Flat(ds[1]) \o " " \o OperatorSymbol[occ.n.op.ast_type]
                   \o "= " \o Flat(ds[2])
            /\ Tokens(Printed(occ))
                 = Tokens(ds[1])
                   \o <<Text(" "), Text(OperatorSymbol[occ.n.op.ast_type]),
                        Text("= ")>>
                   \o Tokens(ds[2])

\* x += 1 has been printed
C5_Witness ==
  /\ pc = "done"
  /\ node = Module(<<AugAssign(Name("x"), Op("Add"), Num(1, 0))>>)
  /\ Flat(result) = "x += 1\n"

\* the text of a comparison: left, then " " symbol " " comparator per pair
RECURSIVE CompareText(_, _, _)
CompareText(left, ops, cs) ==
  IF ops = <<>> THEN left
  ELSE CompareText(left \o " " \o OperatorSymbol[ops[1].ast_type] \o " " \o cs[1],
                   Tail(ops), Tail(cs))

\* C6: a Compare with operators op_1..op_m and comparators c_1..c_m is
\* printed as the left operand followed, for k = 1..m in order, by " ", the
\* symbol of op_k, " " and c_k, with no parentheses added.
C6_CompareChain ==
  pc = "done" =>
    \A occ \in Occurrences(node, NULL) :
      LET cs == PrintedSeq(occ.n.comparators, occ.n)
          left == genericPrint(occ.n.left, occ.n)
      IN  (occ.n.ast_type = "Compare" /\ NoThrowIn(cs) /\ ~IsThrow(left)) =>
            /\ Flat(Printed(occ))
                 = CompareText(Flat(left), occ.n.ops, FlatAll(cs))
            /\ Printed(occ)
                 = concat(<<left>>
                          \o [k \in 1..Len(occ.n.ops) |->
                                concat(<<Text(" "),
                                         Text(OperatorSymbol[occ.n.ops[k].ast_type]),
                                         Text(" "), cs[k]>>)])

\* a < a <= 1 has been printed
C6_Witness ==
  /\ pc = "done"
  /\ node = Module(<<Expr(Compare(Name("a"), <<Op("Lt"), Op("LtE")>>,
                                  <<Name("a"), Num(1, 0)>>))>>)
  /\ Flat(result) = "a < a <= 1\n"

\* C7: a Dict with keys k_1..k_m and values v_1..v_m is printed as "{", then
\* the entries (soft break, k_j, ": ", v_j) in key order, key j with value j,
\* with a bare "," between entries, then a soft break and "}".
C7_DictEntries ==
  pc = "done" =>
    \A occ \in Occurrences(node, NULL) :
      LET ks == PrintedSeq(occ.n.keys, occ.n)
          vs == PrintedSeq(occ.n.values, occ.n)
          entryTokens == [j \in 1..Len(ks) |->
                            (IF j > 1 THEN <<Text(",")>> ELSE <<>>)
                            \o <<softline>> \o Tokens(ks[j])
                            \o <<Text(": ")>> \o Tokens(vs[j])]
          entryText == [j \in 1..Len(ks) |-> Flat(ks[j]) \o ": " \o Flat(vs[j])]
      IN  (occ.n.ast_type = "Dict" /\ NoThrowIn(ks) /\ NoThrowIn(vs)) =>
            /\ Tokens(Printed(occ))
                 = <<Text("{")>>
                   \o TokensSeq([j \in 1..Len(ks) |-> concat(entryTokens[j])])
                   \o <<softline, Text("}")>>
            /\ Flat(Printed(occ)) = "{" \o JoinText(",", entryText) \o "}"

\* a dict of two entries has been printed
C7_Witness ==
  /\ pc = "done"
  /\ node = Module(<<Expr(Dict(<<Name("k1"), Name("k2")>>,
                               <<Name("a"), Num(1, 0)>>))>>)
  /\ Flat(result) = "{k1: a,k2: 1}\n"


====
